---- MODULE Spec2Model ----
(***************************************************************************)
(* Verification model of the AIDI1003 capstone recruitment application:    *)
(* the label/evaluate script, the mock candidate ranking, the skill-gap    *)
(* analysis of resumeGenerationService, the useResumeGenerator hook with   *)
(* its backend status probe, and the IntelligentChatbot send path.         *)
(*                                                                         *)
(* Scores are integers in hundredths (0.6 is 60).  Text is a sequence of   *)
(* one-character strings, so that trim, toLowerCase and includes are       *)
(* computed rather than assumed.                                           *)
(***************************************************************************)
EXTENDS Integers, Sequences, FiniteSets, TLC

VARIABLES
    \* ---- part_000: labelling script and /ats/evaluate
    matched_score,      \* df['matched_score'] of the row being labelled
    labelOut,           \* df['match_label'] of that row
    labelDone,          \* the row has been labelled
    logits,             \* outputs.logits of the last evaluate request
    predicted_class,    \* torch.argmax(logits, dim=1).item()
    prediction,         \* the "prediction" field of the JSON answer
    evalDone,           \* an evaluate request has been answered
    \* ---- CandidateRanking component (part_005) over mockAiService
    candidates,         \* the candidates prop
    rankRuns,           \* each analyzeCandidates invocation: position, argument
    rankArg,            \* candidates argument of the last resolved rankCandidates
    rankingResults,     \* what that rankCandidates call resolved to
    rankings,           \* useState([]) rankings
    rankLoading,        \* useState(false) loading
    rankError,          \* useState(null) error
    \* ---- resume/resumeGenerationService.analyzeJobAndProfile
    gapPc,              \* position of the analyzeJobAndProfile call
    gapProfile,         \* the candidateProfile argument
    gapSkills,          \* const extractedSkills (line 63)
    gapResumeText,      \* const resumeText (line 66)
    gapAnalysis,        \* the object returned at lines 71-106
    \* ---- the backend the services talk to
    backendUp,          \* whether the Python backend is reachable
    \* ---- useResumeGenerator hook (part_001) over the service of part_007
    jobDescription,     \* useState('')
    resume,             \* useState('')
    extractedSkills,    \* useState([])
    generatedResume,    \* useState(null)
    matchScore,         \* useState(0)
    loading,            \* useState(false)
    error,              \* useState('')
    backendStatus,      \* useState('checking')
    statusPc,           \* position of the mount effect's checkStatus
    probeOutcome,       \* how the model-status request of checkStatus ended
    isConnected,        \* what checkBackendStatus handed to checkStatus
    analyzePc,          \* position of the handleAnalyze invocation
    matchResult,        \* const matchResult of handleAnalyze (line 75)
    \* ---- IntelligentChatbot component
    messages,           \* useState([greeting]) messages
    input,              \* useState('') input
    isTyping,           \* useState(false) isTyping
    chatError,          \* useState(null) error
    sends,              \* position of each handleSend invocation
    now,                \* wall clock, in ticks
    probeFailed,        \* the last settled status probe of handleSend failed
    probeFailedAt,      \* clock value when it failed
    \* ---- the backend, continued
    backendSilent,      \* the backend accepts requests and never answers them
    \* ---- useVoiceJobSearch hook inside the VoiceJobSearch component
    voiceQuery,         \* useState('')
    matchingJobs,       \* useState([])
    voiceLoading,       \* useState(false) loading
    voiceError,         \* useState('') error
    voiceBackendStatus, \* useState('checking') backendStatus
    voiceStatusPc,      \* position of the mount effect's checkStatus
    voicePc,            \* position of the handleVoiceQuery invocation
    showVoiceSearch,    \* useState(false) of VoiceJobSearch
    \* ---- components/ai/ResumeGenerator over the top-level
    \* ---- resumeGenerationService
    activeStep,         \* useState(0)
    wizJobDescription,  \* useState('') jobDescription
    wizLoading,         \* useState(false) loading
    wizError,           \* useState(null) error
    wizGeneratedResume, \* useState(null) generatedResume
    wizPc,              \* position of the handleNext invocation
    \* ---- resume/resumeGenerationService.generateFinalResume
    asmStep,            \* the await the call is at: 0 when no call is running
    asmInput,           \* the jobDescription argument of the call
    asmDone,            \* the locals the call has computed so far
    asmOutcome,         \* how the last call ended
    asmResult,          \* what the last call returned
    asmLog              \* argument and result of each call that returned

labelVars == <<matched_score, labelOut, labelDone, logits, predicted_class,
               prediction, evalDone>>
rankVars  == <<candidates, rankRuns, rankArg, rankingResults, rankings,
               rankLoading, rankError>>
gapVars   == <<gapPc, gapProfile, gapSkills, gapResumeText, gapAnalysis>>
hookVars  == <<jobDescription, resume, extractedSkills, generatedResume,
               matchScore, loading, error, backendStatus, statusPc,
               probeOutcome, isConnected, analyzePc, matchResult>>
chatVars  == <<messages, input, isTyping, chatError, sends, now, probeFailed,
               probeFailedAt>>
voiceVars == <<voiceQuery, matchingJobs, voiceLoading, voiceError,
               voiceBackendStatus, voiceStatusPc, voicePc, showVoiceSearch>>
wizardVars == <<activeStep, wizJobDescription, wizLoading, wizError,
                wizGeneratedResume, wizPc>>
asmVars   == <<asmStep, asmInput, asmDone, asmOutcome, asmResult, asmLog>>
extVars   == <<backendSilent, voiceVars, wizardVars, asmVars>>
vars == <<labelVars, rankVars, gapVars, backendUp, hookVars, chatVars, extVars>>

----------------------------------------------------------------------------
(* Bounds of the model *)

MaxScore == 100         \* largest matched_score tried, in hundredths
MaxLogit == 2           \* logits range over -MaxLogit..MaxLogit
MaxCands == 2           \* longest candidates prop
MaxRuns  == 2           \* analyzeCandidates invocations per behaviour
MaxSkills == 6          \* longest skills array the backend answers with
MaxSends == 2           \* handleSend invocations that go to the backend
MaxTime  == 2           \* last clock tick
MaxCalls == 2           \* generateFinalResume calls that return, per behaviour
TTL      == 2           \* ticks for which a probe result is to be trusted

----------------------------------------------------------------------------
(* part_000: match_label and evaluate *)

Threshold == 60         \* the literal 0.6 of part_000 line 29

\* line 29 with >= in place of >
match_label_ge(s) == IF s >= Threshold THEN 1 ELSE 0

\* (df['matched_score'].astype(float) > 0.6).astype(int)
match_label(s) == IF s > Threshold THEN 1 ELSE 0

\* torch.argmax over the two class logits: the first maximal index wins
argmax(l) == IF l[2] > l[1] THEN 1 ELSE 0

\* result = "Match" if predicted_class == 1 else "No Match"
evaluate_result(c) == IF c = 1 THEN "Match" ELSE "No Match"

Scores == 0..MaxScore
Logit  == (0 - MaxLogit)..MaxLogit

LabelInit ==
    /\ matched_score = 0
    /\ labelOut = 0
    /\ labelDone = FALSE
    /\ logits = <<0, 0>>
    /\ predicted_class = 0
    /\ prediction = "none"
    /\ evalDone = FALSE

\* One row of the data frame goes through line 29.
LabelRow ==
    /\ \E s \in Scores :
          /\ matched_score' = s
          /\ labelOut' = match_label(s)
    /\ labelDone' = TRUE
    /\ UNCHANGED <<logits, predicted_class, prediction, evalDone, rankVars, gapVars, backendUp, hookVars, chatVars, extVars>>

\* One POST /ats/evaluate: the classifier answers with two logits.
evaluate ==
    /\ \E l0 \in Logit, l1 \in Logit :
          /\ logits' = <<l0, l1>>
          /\ predicted_class' = argmax(<<l0, l1>>)
          /\ prediction' = evaluate_result(argmax(<<l0, l1>>))
    /\ evalDone' = TRUE
    /\ UNCHANGED <<matched_score, labelOut, labelDone, rankVars, gapVars, backendUp, hookVars, chatVars, extVars>>

----------------------------------------------------------------------------
(* mockAiService.rankCandidates and CandidateRanking.analyzeCandidates *)

\* mockResponses.ranking, lines 22-33 (strengths left out)
mockRanking == << [candidateName |-> "John Doe",   score |-> 85],
                  [candidateName |-> "Jane Smith", score |-> 92] >>

\* rankCandidates resolves to { rankings, timestamp }: an object, not an array
rankCandidates(jobText, cands) ==
    [isArray |-> FALSE, rankings |-> mockRanking]

CandIds    == 1..MaxCands
CandScores == {80}
Candidate  == [id : CandIds, score : CandScores]

RECURSIVE SeqsUpTo(_, _)
SeqsUpTo(S, n) ==
    IF n = 0 THEN {<< >>}
    ELSE LET shorter == SeqsUpTo(S, n - 1)
         IN  shorter \cup {Append(q, x) : q \in {r \in shorter : Len(r) = n - 1}, x \in S}

DistinctIds(cs) == \A i, j \in DOMAIN cs : i # j => cs[i].id # cs[j].id
CandidateLists == {cs \in SeqsUpTo(Candidate, MaxCands) : DistinctIds(cs)}

RankInit ==
    /\ candidates = << >>
    /\ rankRuns = [r \in 1..MaxRuns |-> [pc |-> "unused", cands |-> << >>]]
    /\ rankArg = << >>
    /\ rankingResults = [isArray |-> TRUE, rankings |-> << >>]
    /\ rankings = << >>
    /\ rankLoading = FALSE
    /\ rankError = "null"

\* The parent renders with a new candidates prop; the effect of lines 29-62
\* runs analyzeCandidates when the list is not empty (line 59).
analyzeCandidates ==
    \E cs \in CandidateLists :
       /\ candidates' = cs
       /\ IF Len(cs) > 0 /\ (\E r \in 1..MaxRuns : rankRuns[r].pc = "unused")
          THEN LET r == CHOOSE x \in 1..MaxRuns :
                          /\ rankRuns[x].pc = "unused"
                          /\ \A y \in 1..MaxRuns : rankRuns[y].pc = "unused" => x <= y
               IN  /\ rankRuns' = [rankRuns EXCEPT ![r] = [pc |-> "awaitRank", cands |-> cs]]
                   /\ rankLoading' = TRUE
                   /\ rankError' = "null"
          ELSE UNCHANGED <<rankRuns, rankLoading, rankError>>
       /\ cs # candidates
       /\ UNCHANGED <<rankArg, rankingResults, rankings, labelVars, gapVars, backendUp, hookVars, chatVars, extVars>>

\* lines 34-57 with setRankings moved into the loop: the first entry is
\* published before the others are looked at
rankCandidatesResolved_leak ==
    \E r \in 1..MaxRuns :
       /\ rankRuns[r].pc = "awaitRank"
       /\ LET res == rankCandidates("job", rankRuns[r].cands)
          IN  /\ rankingResults' = res
              /\ rankArg' = rankRuns[r].cands
              /\ rankings' = <<Head(res.rankings)>>
              /\ rankError' = IF res.isArray THEN rankError
                              ELSE "Failed to rank candidates. Please try again."
       /\ rankLoading' = FALSE
       /\ rankRuns' = [rankRuns EXCEPT ![r] = [pc |-> "done", cands |-> << >>]]
       /\ UNCHANGED <<candidates, labelVars, gapVars, backendUp, hookVars, chatVars, extVars>>

\* rankCandidates resolves (line 34); the for-of of line 38 runs over the
\* resolved value.  A value that is not iterable makes for-of throw a
\* TypeError, which the catch of lines 51-53 turns into the error state; an
\* iterable one is copied into rankings (line 50).  finally: loading false.
rankCandidatesResolved ==
    \E r \in 1..MaxRuns :
       /\ rankRuns[r].pc = "awaitRank"
       /\ LET res == rankCandidates("job", rankRuns[r].cands)
          IN  /\ rankingResults' = res
              /\ rankArg' = rankRuns[r].cands
              /\ IF res.isArray
                 THEN /\ rankings' = res.rankings
                      /\ UNCHANGED rankError
                 ELSE /\ rankError' = "Failed to rank candidates. Please try again."
                      /\ UNCHANGED rankings
       /\ rankLoading' = FALSE
       /\ rankRuns' = [rankRuns EXCEPT ![r] = [pc |-> "done", cands |-> << >>]]
       /\ UNCHANGED <<candidates, labelVars, gapVars, backendUp, hookVars, chatVars, extVars>>

----------------------------------------------------------------------------
(* Text: sequences of one-character strings *)

LowerOf == [A |-> "a", C |-> "c", D |-> "d", E |-> "e", G |-> "g", I |-> "i",
            K |-> "k", L |-> "l", N |-> "n", O |-> "o", P |-> "p", Q |-> "q",
            R |-> "r", S |-> "s", T |-> "t", U |-> "u", X |-> "x"]

\* String.prototype.toLowerCase
toLowerCase(t) == [i \in DOMAIN t |-> IF t[i] \in DOMAIN LowerOf THEN LowerOf[t[i]] ELSE t[i]]

\* String.prototype.includes: pat occurs in t as a contiguous substring
includes(t, pat) ==
    \E i \in 0..(Len(t) - Len(pat)) : SubSeq(t, i + 1, i + Len(pat)) = pat

\* Array.prototype.slice(a, b) on 0-based indices
slice(q, a, b) ==
    LET lo == IF a < Len(q) THEN a ELSE Len(q)
        hi == IF b < Len(q) THEN b ELSE Len(q)
    IN  IF lo < hi THEN SubSeq(q, lo + 1, hi) ELSE << >>

\* Array.prototype.map(skill => skill.name || '')
names(q) == [i \in DOMAIN q |-> q[i].name]

\* Array.prototype.join(", ")
RECURSIVE join(_)
join(q) ==
    IF q = << >> THEN << >>
    ELSE IF Len(q) = 1 THEN q[1]
         ELSE q[1] \o <<",", " ">> \o join(Tail(q))

----------------------------------------------------------------------------
(* resume/resumeGenerationService: convertProfileToText, analyzeJobAndProfile *)

Num(n)    == [t |-> "number", v |-> n]
Undefined == [t |-> "undefined", v |-> 0]
RawScores == {Num(0 - 20), Num(50), Num(150), Undefined}

\* lines 114-143, for a profile whose personalInfo fields are '' and whose
\* experience and education arrays are empty (the initial candidateProfile of
\* components/ai/ResumeGenerator.js lines 44-54, with skills filled in)
convertProfileToText(profile) ==
    IF ~profile.hasPersonalInfo THEN << >>
    ELSE <<"\n">> \o <<" ", "|", " ", " ", "|", " ", "\n", "\n">>
         \o <<"E","X","P","E","R","I","E","N","C","E","\n">>
         \o <<"E","D","U","C","A","T","I","O","N","\n">>
         \o <<"S","K","I","L","L","S","\n">>
         \o join(profile.skills)

\* the filter of lines 92-97 (and 74-76):
\*   skill && resumeText && !resumeText.toLowerCase().includes(skill.toLowerCase())
absentFromResume(skill, resumeText) ==
    /\ skill # << >>
    /\ resumeText # << >>
    /\ ~includes(toLowerCase(resumeText), toLowerCase(skill))

\* Array.prototype.filter with that predicate
RECURSIVE filterAbsent(_, _)
filterAbsent(q, resumeText) ==
    IF q = << >> THEN << >>
    ELSE IF absentFromResume(Head(q), resumeText)
         THEN <<Head(q)>> \o filterAbsent(Tail(q), resumeText)
         ELSE filterAbsent(Tail(q), resumeText)

\* skillGaps, lines 91-99
critical(skills, resumeText) ==
    filterAbsent(names(slice(skills, 0, 2)), resumeText)
recommended(skills, resumeText) ==
    filterAbsent(names(slice(skills, 2, 5)), resumeText)
nice(skills) == names(slice(skills, 5, 7))

\* keywordMatch, lines 72-78
matched(skills) == names(slice(skills, 0, 3))
missing(skills, resumeText) ==
    filterAbsent(names(slice(skills, 3, 6)), resumeText)
partial(skills) == names(slice(skills, 6, 9))

\* calculateMatchScore, lines 31-42: response.data.matchScore as it came
calculateMatchScore(data) == data.matchScore

GO  == <<"g", "o">>
SQL == <<"S", "Q", "L">>
sql == <<"s", "q", "l">>

JobSkill  == { [name |-> GO,  relevance |-> 90], [name |-> GO,  relevance |-> 30],
               [name |-> SQL, relevance |-> 60] }
SkillLists == SeqsUpTo(JobSkill, MaxSkills)
Profiles  == { [hasPersonalInfo |-> FALSE, skills |-> << >>] }
             \cup [hasPersonalInfo : {TRUE},
                   skills : {<< >>, <<GO>>, <<sql>>, <<GO, sql>>}]

NoAnalysis == [critical |-> << >>, recommended |-> << >>, nice |-> << >>,
               matched |-> << >>, missing |-> << >>, partial |-> << >>,
               atsScore |-> Undefined]

GapInit ==
    /\ gapPc = "idle"
    /\ gapProfile = [hasPersonalInfo |-> FALSE, skills |-> << >>]
    /\ gapSkills = << >>
    /\ gapResumeText = << >>
    /\ gapAnalysis = NoAnalysis

\* analyzeJobAndProfile is called (line 60) and posts extract-skills (line 63)
analyzeJobAndProfile ==
    /\ gapPc \in {"idle", "returned", "threw"}
    /\ \E p \in Profiles : gapProfile' = p
    /\ gapPc' = "awaitExtract"
    /\ gapSkills' = << >>
    /\ gapResumeText' = << >>
    /\ gapAnalysis' = NoAnalysis
    /\ UNCHANGED <<labelVars, rankVars, backendUp, hookVars, chatVars, extVars>>

\* extract-skills answers with an array of skills: lines 63-69 run up to the
\* post of match-resume
extractSkillsFulfilled ==
    /\ gapPc = "awaitExtract"
    /\ \E q \in SkillLists : gapSkills' = q
    /\ gapResumeText' = convertProfileToText(gapProfile)
    /\ gapPc' = "awaitMatch"
    /\ UNCHANGED <<gapProfile, gapAnalysis, labelVars, rankVars, backendUp, hookVars, chatVars, extVars>>

\* match-resume answers: lines 71-106 build the returned object
calculateMatchScoreFulfilled ==
    /\ gapPc = "awaitMatch"
    /\ \E raw \in RawScores :
          gapAnalysis' =
             [critical    |-> critical(gapSkills, gapResumeText),
              recommended |-> recommended(gapSkills, gapResumeText),
              nice        |-> nice(gapSkills),
              matched     |-> matched(gapSkills),
              missing     |-> missing(gapSkills, gapResumeText),
              partial     |-> partial(gapSkills),
              atsScore    |-> calculateMatchScore([matchScore |-> raw])]
    /\ gapPc' = "returned"
    /\ UNCHANGED <<gapProfile, gapSkills, gapResumeText, labelVars, rankVars, backendUp, hookVars, chatVars, extVars>>

\* either request is rejected: the catch blocks of lines 24-27, 38-41 and
\* 107-110 log and rethrow
analyzeRequestRejected ==
    /\ gapPc \in {"awaitExtract", "awaitMatch"}
    /\ gapPc' = "threw"
    /\ UNCHANGED <<gapProfile, gapSkills, gapResumeText, gapAnalysis, labelVars, rankVars, backendUp, hookVars, chatVars, extVars>>

----------------------------------------------------------------------------
(* The backend, and the resume service of part_007 *)

\* how an axios request can end: a 2xx answer with its data, or a rejection
\* (no connection, or a status outside 2xx)
ProbeOutcomes == {"ready", "unavailable", "nodata", "rejected"}

\* lines 10-18 without the catch: a rejected request propagates
checkBackendStatus_nocatch(outcome) ==
    [threw |-> outcome = "rejected", value |-> outcome # "rejected"]

\* checkBackendStatus, part_007 lines 10-18 (resumeApiService.js lines 10-18
\* has the same body): await axios.get inside try, return true; catch, return
\* false
checkBackendStatus(outcome) ==
    [threw |-> FALSE, value |-> outcome # "rejected"]

\* chatbotApiService.checkBackendStatus, lines 15-23: response.data.status ===
\* 'ready' inside try (a missing body makes that read throw inside the try);
\* catch, return false
chatCheckBackendStatus(outcome) ==
    [threw |-> FALSE, value |-> outcome = "ready"]

BackendInit ==
    /\ backendUp = TRUE
    /\ backendSilent = FALSE

BackendDown ==
    /\ backendUp
    /\ backendUp' = FALSE
    /\ UNCHANGED <<labelVars, rankVars, gapVars, hookVars, chatVars, extVars>>

BackendUp ==
    /\ ~backendUp
    /\ backendUp' = TRUE
    /\ UNCHANGED <<labelVars, rankVars, gapVars, hookVars, chatVars, extVars>>

\* the backend keeps accepting requests and stops answering them; axios is
\* used without a timeout option (part_007 lines 12, 27, 56, 83), so such a
\* request neither resolves nor rejects
BackendHangs ==
    /\ ~backendSilent
    /\ backendSilent' = TRUE
    /\ UNCHANGED <<backendUp, labelVars, rankVars, gapVars, hookVars, chatVars,
                   voiceVars, wizardVars, asmVars>>

\* extractSkills, part_007 lines 25-44, on a 2xx answer:
\*   skills: data.skills || []
extractSkills(data) == IF data.hasSkills THEN data.skills ELSE << >>

\* x || 0 on a number or undefined
OrZero(x) == IF x.t = "undefined" \/ x.v = 0 THEN Num(0) ELSE x

ExtractData == { [hasSkills |-> FALSE, skills |-> << >>],
                 [hasSkills |-> TRUE,  skills |-> << >>],
                 [hasSkills |-> TRUE,  skills |-> <<[name |-> GO]>>],
                 [hasSkills |-> TRUE,  skills |-> <<[name |-> GO], [name |-> SQL]>>] }

\* what generate-resume can answer: an object with personalized_resume, with
\* or without a match_score key; an object without personalized_resume; a
\* value that is not an object
GenerateData ==
    [kind : {"personalized"}, hasMatchScore : {TRUE}, match_score : RawScores]
    \cup { [kind |-> "personalized", hasMatchScore |-> FALSE, match_score |-> Undefined],
           [kind |-> "otherObject",  hasMatchScore |-> FALSE, match_score |-> Undefined],
           [kind |-> "notObject",    hasMatchScore |-> FALSE, match_score |-> Undefined] }

----------------------------------------------------------------------------
(* useResumeGenerator, part_001 *)

IsSpace(c) == c \in {" ", "\n"}

\* String.prototype.trim
RECURSIVE trimStart(_)
trimStart(t) == IF t # << >> /\ IsSpace(Head(t)) THEN trimStart(Tail(t)) ELSE t
RECURSIVE trimEnd(_)
trimEnd(t) ==
    IF t # << >> /\ IsSpace(t[Len(t)]) THEN trimEnd(SubSeq(t, 1, Len(t) - 1)) ELSE t
trim(t) == trimEnd(trimStart(t))

Texts == { << >>, <<" ">>, <<"g", "o">>, <<" ", "g", "o", " ">> }

ErrCannotConnect == "Cannot connect to the backend server. Please make sure it is running."
ErrNoSkills == "An error occurred: No skills were extracted from the job description. Please try a more detailed job description."
ErrExtract  == "An error occurred: Failed to extract skills from job description"
ErrMatch    == "An error occurred: Failed to match resume with job skills"
ErrGenerate == "An error occurred: Failed to generate personalized resume"

NoResult == [threw |-> FALSE, value |-> FALSE]

\* the hook right after its first render: the mount effect (lines 22-39) has
\* called checkStatus, whose model-status request is in flight
HookInit ==
    /\ jobDescription = << >>
    /\ resume = << >>
    /\ extractedSkills = << >>
    /\ generatedResume = "null"
    /\ matchScore = Num(0)
    /\ loading = FALSE
    /\ error = ""
    /\ backendStatus = "checking"
    /\ statusPc = "probing"
    /\ probeOutcome = "pending"
    /\ isConnected = NoResult
    /\ analyzePc = "idle"
    /\ matchResult = Undefined

\* the model-status request ends and checkStatus (lines 23-36) runs to its end
checkStatus ==
    /\ statusPc = "probing"
    /\ ~backendSilent
    /\ \E outcome \in ProbeOutcomes :
          /\ (outcome = "rejected") = (~backendUp)
          /\ probeOutcome' = outcome
          /\ LET res == checkBackendStatus(outcome)
             IN  /\ isConnected' = res
                 /\ IF res.threw
                    THEN /\ backendStatus' = "disconnected"
                         /\ error' = ErrCannotConnect
                    ELSE /\ backendStatus' = IF res.value THEN "connected" ELSE "disconnected"
                         /\ error' = IF res.value THEN error ELSE ErrCannotConnect
    /\ statusPc' = "done"
    /\ UNCHANGED <<jobDescription, resume, extractedSkills, generatedResume,
                   matchScore, loading, analyzePc, matchResult,
                   backendUp, labelVars, rankVars, gapVars, chatVars, extVars>>

\* the two text fields of the component (part_006 lines 63-82)
setJobDescription ==
    /\ \E t \in Texts : t # jobDescription /\ jobDescription' = t
    /\ UNCHANGED <<resume, extractedSkills, generatedResume, matchScore, loading,
                   error, backendStatus, statusPc, probeOutcome, isConnected,
                   analyzePc, matchResult, backendUp, labelVars, rankVars, gapVars, chatVars, extVars>>

setResume ==
    /\ \E t \in Texts : t # resume /\ resume' = t
    /\ UNCHANGED <<jobDescription, extractedSkills, generatedResume, matchScore,
                   loading, error, backendStatus, statusPc, probeOutcome,
                   isConnected, analyzePc, matchResult, backendUp, labelVars,
                   rankVars, gapVars, chatVars, extVars>>

\* handleAnalyze behind a button that is disabled only while disconnected
handleAnalyze_noguard ==
    /\ backendStatus # "disconnected"
    /\ IF trim(jobDescription) = << >>
       THEN /\ error' = "Please enter a job description"
            /\ UNCHANGED <<loading, analyzePc>>
       ELSE IF trim(resume) = << >>
       THEN /\ error' = "Please enter your resume"
            /\ UNCHANGED <<loading, analyzePc>>
       ELSE /\ error' = ""
            /\ loading' = TRUE
            /\ analyzePc' = "awaitExtract"
    /\ UNCHANGED <<jobDescription, resume, extractedSkills, generatedResume,
                   matchScore, backendStatus, statusPc, probeOutcome, isConnected,
                   matchResult, backendUp, labelVars, rankVars, gapVars, chatVars, extVars>>

\* the Analyze button (part_006 lines 87-96, disabled while loading or
\* disconnected) is clicked: handleAnalyze runs lines 42-61, up to the post of
\* extract-skills
handleAnalyze ==
    /\ ~(loading \/ backendStatus = "disconnected")
    /\ IF backendStatus = "disconnected"
       THEN /\ error' = ErrCannotConnect
            /\ UNCHANGED <<loading, analyzePc>>
       ELSE IF trim(jobDescription) = << >>
       THEN /\ error' = "Please enter a job description"
            /\ UNCHANGED <<loading, analyzePc>>
       ELSE IF trim(resume) = << >>
       THEN /\ error' = "Please enter your resume"
            /\ UNCHANGED <<loading, analyzePc>>
       ELSE /\ error' = ""
            /\ loading' = TRUE
            /\ analyzePc' = "awaitExtract"
    /\ UNCHANGED <<jobDescription, resume, extractedSkills, generatedResume,
                   matchScore, backendStatus, statusPc, probeOutcome, isConnected,
                   matchResult, backendUp, labelVars, rankVars, gapVars, chatVars, extVars>>

\* lines 61-73 without the length test of lines 70-72: match-resume is posted
\* also for an empty skills array
extractSkillsAnswered_nocheck ==
    /\ ~backendSilent
    /\ analyzePc = "awaitExtract"
    /\ backendUp
    /\ \E data \in ExtractData : extractedSkills' = extractSkills(data)
    /\ analyzePc' = "awaitMatch"
    /\ UNCHANGED <<jobDescription, resume, generatedResume, matchScore, error, loading,
                   backendStatus, statusPc, probeOutcome, isConnected, matchResult,
                   backendUp, labelVars, rankVars, gapVars, chatVars, extVars>>

\* extract-skills answers 2xx: lines 61-73, up to the post of match-resume, or
\* through the throw of line 71 to the catch and finally of lines 107-112
extractSkillsAnswered ==
    /\ ~backendSilent
    /\ analyzePc = "awaitExtract"
    /\ backendUp
    /\ \E data \in ExtractData :
          LET skillsArray == extractSkills(data)
          IN  /\ extractedSkills' = skillsArray
              /\ IF Len(skillsArray) = 0
                 THEN /\ error' = ErrNoSkills
                      /\ loading' = FALSE
                      /\ analyzePc' = "idle"
                 ELSE /\ analyzePc' = "awaitMatch"
                      /\ UNCHANGED <<error, loading>>
    /\ UNCHANGED <<jobDescription, resume, generatedResume, matchScore,
                   backendStatus, statusPc, probeOutcome, isConnected, matchResult,
                   backendUp, labelVars, rankVars, gapVars, chatVars, extVars>>

\* match-resume answers 2xx: lines 75-82, up to the post of generate-resume
matchResumeAnswered ==
    /\ ~backendSilent
    /\ analyzePc = "awaitMatch"
    /\ backendUp
    /\ \E raw \in RawScores :
          /\ matchResult' = raw
          /\ matchScore' = OrZero(raw)
    /\ analyzePc' = "awaitGenerate"
    /\ UNCHANGED <<jobDescription, resume, extractedSkills, generatedResume,
                   loading, error, backendStatus, statusPc, probeOutcome,
                   isConnected, backendUp, labelVars, rankVars, gapVars, chatVars, extVars>>

\* generate-resume answers 2xx: lines 82-105 and the finally of line 110
generateResumeAnswered ==
    /\ ~backendSilent
    /\ analyzePc = "awaitGenerate"
    /\ backendUp
    /\ \E resumeData \in GenerateData :
          IF resumeData.kind = "personalized"
          THEN /\ generatedResume' = "personalized_resume"
               /\ matchScore' = IF resumeData.hasMatchScore
                                THEN resumeData.match_score ELSE matchScore
          ELSE /\ generatedResume' = IF resumeData.kind = "otherObject"
                                     THEN "JSON.stringify(resumeData)"
                                     ELSE "String(resumeData)"
               /\ matchScore' = OrZero(matchResult)
    /\ loading' = FALSE
    /\ analyzePc' = "idle"
    /\ UNCHANGED <<jobDescription, resume, extractedSkills, error, backendStatus,
                   statusPc, probeOutcome, isConnected, matchResult,
                   backendUp, labelVars, rankVars, gapVars, chatVars, extVars>>

\* lines 107-112 when extractSkills swallows the failure and hands back
\* { skills: [] }: line 71 then throws the no-skills Error
requestRejected_asEmpty ==
    /\ ~backendSilent
    /\ analyzePc \in {"awaitExtract", "awaitMatch", "awaitGenerate"}
    /\ error' = CASE analyzePc = "awaitExtract"  -> ErrNoSkills
                  [] analyzePc = "awaitMatch"    -> ErrMatch
                  [] analyzePc = "awaitGenerate" -> ErrGenerate
    /\ loading' = FALSE
    /\ analyzePc' = "idle"
    /\ UNCHANGED <<jobDescription, resume, extractedSkills, generatedResume,
                   matchScore, backendStatus, statusPc, probeOutcome, isConnected,
                   matchResult, backendUp, labelVars, rankVars, gapVars, chatVars, extVars>>

\* lines 107-112 with a setBackendStatus('disconnected') added to the catch
requestRejected_disconnects ==
    /\ ~backendSilent
    /\ analyzePc \in {"awaitExtract", "awaitMatch", "awaitGenerate"}
    /\ error' = CASE analyzePc = "awaitExtract"  -> ErrExtract
                  [] analyzePc = "awaitMatch"    -> ErrMatch
                  [] analyzePc = "awaitGenerate" -> ErrGenerate
    /\ loading' = FALSE
    /\ analyzePc' = "idle"
    /\ backendStatus' = "disconnected"
    /\ UNCHANGED <<jobDescription, resume, extractedSkills, generatedResume,
                   matchScore, statusPc, probeOutcome, isConnected,
                   matchResult, backendUp, labelVars, rankVars, gapVars, chatVars, extVars>>

\* the request in flight is rejected: the service throws its own Error
\* (part_007 lines 40-43, 62-65, 90-93) and lines 107-112 set the error
requestRejected ==
    /\ ~backendSilent
    /\ analyzePc \in {"awaitExtract", "awaitMatch", "awaitGenerate"}
    /\ error' = CASE analyzePc = "awaitExtract"  -> ErrExtract
                  [] analyzePc = "awaitMatch"    -> ErrMatch
                  [] analyzePc = "awaitGenerate" -> ErrGenerate
    /\ loading' = FALSE
    /\ analyzePc' = "idle"
    /\ UNCHANGED <<jobDescription, resume, extractedSkills, generatedResume,
                   matchScore, backendStatus, statusPc, probeOutcome, isConnected,
                   matchResult, backendUp, labelVars, rankVars, gapVars, chatVars, extVars>>

\* the Reset button (part_006 lines 97-105, disabled while loading) is
\* clicked: handleReset, lines 116-123
handleReset ==
    /\ ~loading
    /\ jobDescription' = << >>
    /\ resume' = << >>
    /\ extractedSkills' = << >>
    /\ generatedResume' = "null"
    /\ matchScore' = Num(0)
    /\ error' = ""
    /\ UNCHANGED <<loading, backendStatus, statusPc, probeOutcome, isConnected,
                   analyzePc, matchResult, backendUp, labelVars, rankVars, gapVars, chatVars, extVars>>

----------------------------------------------------------------------------
(* useVoiceJobSearch (hooks/useVoiceJobSearch.js) inside VoiceJobSearch *)

ErrNoVoiceQuery == "No voice query detected"
ErrNoJobs == "No matching jobs found. Try a different search query."
ErrVoice  == "An error occurred while processing your voice search. Please try again."

\* what process-voice-query can answer with: no matchingJobs key, an empty
\* list, one job
VoiceData == { [hasJobs |-> FALSE, matchingJobs |-> << >>],
               [hasJobs |-> TRUE,  matchingJobs |-> << >>],
               [hasJobs |-> TRUE,  matchingJobs |-> <<[id |-> 1]>>] }

\* result.matchingJobs || []
jobsOf(result) == IF result.hasJobs THEN result.matchingJobs ELSE << >>

\* the transcripts stopListening can hand over: `transcript` must be truthy
\* (VoiceSearch.js line 55), so never ''
Transcripts == Texts \ {<< >>}

VoiceInit ==
    /\ voiceQuery = << >>
    /\ matchingJobs = << >>
    /\ voiceLoading = FALSE
    /\ voiceError = ""
    /\ voiceBackendStatus = "checking"
    /\ voiceStatusPc = "probing"
    /\ voicePc = "idle"
    /\ showVoiceSearch = FALSE

\* the model-status request of the mount effect ends: checkStatus, lines 17-25
voiceCheckStatus ==
    /\ voiceStatusPc = "probing"
    /\ ~backendSilent
    /\ \E outcome \in ProbeOutcomes :
          /\ (outcome = "rejected") = (~backendUp)
          /\ LET res == checkBackendStatus(outcome)
             IN  /\ voiceBackendStatus' = IF res.value THEN "connected" ELSE "disconnected"
                 /\ voiceError' = IF res.value THEN voiceError ELSE ErrCannotConnect
    /\ voiceStatusPc' = "done"
    /\ UNCHANGED <<voiceQuery, matchingJobs, voiceLoading, voicePc, showVoiceSearch,
                   backendSilent, wizardVars, asmVars, backendUp, labelVars,
                   rankVars, gapVars, hookVars, chatVars>>

\* "Start Voice Search" (VoiceJobSearch.js lines 76-89): shown while there is
\* no query and the panel is closed, disabled while disconnected
startVoiceSearch ==
    /\ ~showVoiceSearch
    /\ voiceQuery = << >>
    /\ voiceBackendStatus # "disconnected"
    /\ showVoiceSearch' = TRUE
    /\ UNCHANGED <<voiceQuery, matchingJobs, voiceLoading, voiceError,
                   voiceBackendStatus, voiceStatusPc, voicePc,
                   backendSilent, wizardVars, asmVars, backendUp, labelVars,
                   rankVars, gapVars, hookVars, chatVars>>

\* "New Voice Search" (lines 47-50, 116-124): resetSearch (hook lines 70-74),
\* then the panel opens
handleStartNewSearch ==
    /\ ~showVoiceSearch
    /\ voiceQuery # << >>
    /\ voiceBackendStatus # "disconnected"
    /\ voiceQuery' = << >>
    /\ matchingJobs' = << >>
    /\ voiceError' = ""
    /\ showVoiceSearch' = TRUE
    /\ UNCHANGED <<voiceLoading, voiceBackendStatus, voiceStatusPc, voicePc,
                   backendSilent, wizardVars, asmVars, backendUp, labelVars,
                   rankVars, gapVars, hookVars, chatVars>>

\* the panel's close button (lines 37-39)
handleVoiceSearchClose ==
    /\ showVoiceSearch
    /\ showVoiceSearch' = FALSE
    /\ UNCHANGED <<voiceQuery, matchingJobs, voiceLoading, voiceError,
                   voiceBackendStatus, voiceStatusPc, voicePc,
                   backendSilent, wizardVars, asmVars, backendUp, labelVars,
                   rankVars, gapVars, hookVars, chatVars>>

\* the microphone button stops listening (VoiceSearch.js lines 50-65; the
\* button is disabled while a query is being processed, line 129) and hands
\* the transcript to handleVoiceQuery, hook lines 32-47, up to the post of
\* process-voice-query; an early return closes the panel at once (VoiceJobSearch.js line 34)
handleVoiceQuery ==
    /\ showVoiceSearch
    /\ voicePc = "idle"
    /\ \E query \in Transcripts :
          IF voiceBackendStatus = "disconnected"
          THEN /\ voiceError' = ErrCannotConnect
               /\ showVoiceSearch' = FALSE
               /\ UNCHANGED <<voiceQuery, voiceLoading, voicePc>>
          ELSE IF trim(query) = << >>
          THEN /\ voiceError' = ErrNoVoiceQuery
               /\ showVoiceSearch' = FALSE
               /\ UNCHANGED <<voiceQuery, voiceLoading, voicePc>>
          ELSE /\ voiceQuery' = query
               /\ voiceError' = ""
               /\ voiceLoading' = TRUE
               /\ voicePc' = "awaitVoice"
               /\ UNCHANGED showVoiceSearch
    /\ UNCHANGED <<matchingJobs, voiceBackendStatus, voiceStatusPc,
                   backendSilent, wizardVars, asmVars, backendUp, labelVars,
                   rankVars, gapVars, hookVars, chatVars>>

\* process-voice-query answers 2xx: hook lines 48-58 and the finally of line
\* 62; then handleVoiceSearchComplete closes the panel
voiceAnswered ==
    /\ voicePc = "awaitVoice"
    /\ backendUp
    /\ ~backendSilent
    /\ \E result \in VoiceData :
          LET jobs == jobsOf(result)
          IN  /\ matchingJobs' = jobs
              /\ voiceError' = IF Len(jobs) = 0 THEN ErrNoJobs ELSE voiceError
    /\ voiceLoading' = FALSE
    /\ voicePc' = "idle"
    /\ showVoiceSearch' = FALSE
    /\ UNCHANGED <<voiceQuery, voiceBackendStatus, voiceStatusPc,
                   backendSilent, wizardVars, asmVars, backendUp, labelVars,
                   rankVars, gapVars, hookVars, chatVars>>

\* process-voice-query is rejected: the service rethrows
\* (voiceJobSearchService.js lines 19-22) and hook lines 58-63 run
voiceRejected ==
    /\ voicePc = "awaitVoice"
    /\ ~backendSilent
    /\ voiceError' = ErrVoice
    /\ matchingJobs' = << >>
    /\ voiceLoading' = FALSE
    /\ voicePc' = "idle"
    /\ showVoiceSearch' = FALSE
    /\ UNCHANGED <<voiceQuery, voiceBackendStatus, voiceStatusPc,
                   backendSilent, wizardVars, asmVars, backendUp, labelVars,
                   rankVars, gapVars, hookVars, chatVars>>

----------------------------------------------------------------------------
(* components/ai/ResumeGenerator.js and the generateFinalResume it imports *)

\* const steps, line 37: four steps, the last one is index 3
LastStep == 3

NoResume == [generated |-> FALSE, template |-> "none", timestamp |-> 0]

\* generateFinalResume of the top-level resumeGenerationService.js, lines
\* 130-156: fixed analysis, content and atsCheck, the template argument, and
\* versions[0].timestamp = new Date().toISOString()
mockGenerateFinalResume(template) ==
    [generated |-> TRUE, template |-> template, timestamp |-> now]

WizardInit ==
    /\ activeStep = 0
    /\ wizJobDescription = << >>
    /\ wizLoading = FALSE
    /\ wizError = "null"
    /\ wizGeneratedResume = NoResume
    /\ wizPc = "idle"

\* the Job Description field of step 0 (lines 122-131)
wizSetJobDescription ==
    /\ activeStep = 0
    /\ \E t \in Texts : t # wizJobDescription /\ wizJobDescription' = t
    /\ UNCHANGED <<activeStep, wizLoading, wizError, wizGeneratedResume, wizPc,
                   backendSilent, voiceVars, asmVars, backendUp, labelVars,
                   rankVars, gapVars, hookVars, chatVars>>

\* the Next / Generate Resume button (lines 324-330, disabled while loading):
\* handleNext, lines 62-84, up to the await of generateFinalResume
handleNext ==
    /\ ~wizLoading
    /\ IF activeStep = LastStep
       THEN /\ wizLoading' = TRUE
            /\ wizError' = "null"
            /\ wizPc' = "generating"
            /\ UNCHANGED activeStep
       ELSE /\ activeStep' = activeStep + 1
            /\ UNCHANGED <<wizLoading, wizError, wizPc>>
    /\ UNCHANGED <<wizJobDescription, wizGeneratedResume,
                   backendSilent, voiceVars, asmVars, backendUp, labelVars,
                   rankVars, gapVars, hookVars, chatVars>>

\* the Back button (lines 319-323), shown from step 1 on
handleBack ==
    /\ activeStep > 0
    /\ activeStep' = activeStep - 1
    /\ UNCHANGED <<wizJobDescription, wizLoading, wizError, wizGeneratedResume, wizPc,
                   backendSilent, voiceVars, asmVars, backendUp, labelVars,
                   rankVars, gapVars, hookVars, chatVars>>

\* generateFinalResume resolves: handleNext lines 75-76
generateFinalResumeResolved ==
    /\ wizPc = "generating"
    /\ wizGeneratedResume' = mockGenerateFinalResume("modern")
    /\ wizLoading' = FALSE
    /\ wizPc' = "idle"
    /\ UNCHANGED <<activeStep, wizJobDescription, wizError,
                   backendSilent, voiceVars, asmVars, backendUp, labelVars,
                   rankVars, gapVars, hookVars, chatVars>>

----------------------------------------------------------------------------
(* resume/resumeGenerationService.js: generateFinalResume, lines 223-279 *)

\* what the function awaits, in order: checkBackendStatus (line 231), then
\* the calls whose results are the locals analysis (237), content (238),
\* atsCheck (239), extractedSkills (242) and generatedResume (248)
AsmAwaits == <<"checkBackendStatus", "analysis", "content", "atsCheck",
               "extractedSkills", "generatedResume">>

\* checkAtsCompatibility (lines 199-221) computes locally; every other call
\* posts to the backend
LocalAwaits == {"atsCheck"}

AsmInputs == {GO, sql}

NoAssembled == [returned |-> FALSE, sections |-> {}, failed |-> "none",
                input |-> << >>, timestamp |-> 0]

\* the object of lines 250-274: the sections, built from the backend's
\* answers for this jobDescription, and versions[0].timestamp =
\* new Date().toISOString()
assembled(jobText, sections) ==
    [returned |-> TRUE, sections |-> sections, failed |-> "none",
     input |-> jobText, timestamp |-> now]

AsmInit ==
    /\ asmStep = 0
    /\ asmInput = << >>
    /\ asmDone = {}
    /\ asmOutcome = "none"
    /\ asmResult = NoAssembled
    /\ asmLog = << >>

\* a caller invokes generateFinalResume: lines 223-231, up to the await of
\* checkBackendStatus
generateFinalResume ==
    /\ asmStep = 0
    /\ Len(asmLog) < MaxCalls
    /\ \E jobText \in AsmInputs : asmInput' = jobText
    /\ asmStep' = 1
    /\ asmDone' = {}
    /\ asmOutcome' = "pending"
    /\ asmResult' = NoAssembled
    /\ UNCHANGED <<asmLog, backendSilent, voiceVars, wizardVars, backendUp,
                   labelVars, rankVars, gapVars, hookVars, chatVars>>

\* the model-status request ends: lines 231-235 (checkBackendStatus, lines
\* 7-15, has the body of part_007's)
asmProbed ==
    /\ asmStep = 1
    /\ ~backendSilent
    /\ \E outcome \in ProbeOutcomes :
          /\ (outcome = "rejected") = (~backendUp)
          /\ IF checkBackendStatus(outcome).value
             THEN /\ asmStep' = 2
                  /\ UNCHANGED asmOutcome
             ELSE /\ asmStep' = 0
                  /\ asmOutcome' = "threw"
    /\ UNCHANGED <<asmInput, asmDone, asmResult, asmLog, backendSilent, voiceVars,
                   wizardVars, backendUp, labelVars, rankVars, gapVars, hookVars,
                   chatVars>>

\* the awaited call resolves: its local is set (lines 237-248); after the
\* last one the function returns the object of lines 250-274
asmAwaitFulfilled ==
    /\ asmStep \in 2..Len(AsmAwaits)
    /\ AsmAwaits[asmStep] \in LocalAwaits \/ (backendUp /\ ~backendSilent)
    /\ asmDone' = asmDone \cup {AsmAwaits[asmStep]}
    /\ IF asmStep = Len(AsmAwaits)
       THEN /\ asmResult' = assembled(asmInput, asmDone')
            /\ asmOutcome' = "returned"
            /\ asmStep' = 0
            /\ asmLog' = Append(asmLog, [input |-> asmInput, result |-> asmResult'])
       ELSE /\ asmStep' = asmStep + 1
            /\ UNCHANGED <<asmResult, asmOutcome, asmLog>>
    /\ UNCHANGED <<asmInput, backendSilent, voiceVars, wizardVars, backendUp,
                   labelVars, rankVars, gapVars, hookVars, chatVars>>

\* the awaited call rejects: the callee rethrows and the catch of lines
\* 275-278 rethrows; nothing is returned
asmAwaitRejected ==
    /\ asmStep \in 2..Len(AsmAwaits)
    /\ AsmAwaits[asmStep] \notin LocalAwaits
    /\ ~backendSilent
    /\ asmOutcome' = "threw"
    /\ asmStep' = 0
    /\ UNCHANGED <<asmInput, asmDone, asmResult, asmLog, backendSilent, voiceVars,
                   wizardVars, backendUp, labelVars, rankVars, gapVars, hookVars,
                   chatVars>>

----------------------------------------------------------------------------
(* IntelligentChatbot *)

Greeting == [role |-> "assistant", content |-> "greeting", isError |-> FALSE]
Apology  == [role |-> "assistant",
             content |-> "I apologize, but I encountered an error. Please try again or contact support if the issue persists.",
             isError |-> TRUE]

ChatInit ==
    /\ messages = <<Greeting>>
    /\ input = << >>
    /\ isTyping = FALSE
    /\ chatError = "null"
    /\ sends = [r \in 1..MaxSends |-> "unused"]
    /\ now = 0
    /\ probeFailed = FALSE
    /\ probeFailedAt = 0

Tick ==
    /\ now < MaxTime
    /\ now' = now + 1
    /\ UNCHANGED <<messages, input, isTyping, chatError, sends, probeFailed,
                   probeFailedAt, backendUp, labelVars, rankVars, gapVars, hookVars, extVars>>

\* the text field's onChange (line 198)
setInput ==
    /\ \E t \in Texts : t # input /\ input' = t
    /\ UNCHANGED <<messages, isTyping, chatError, sends, now, probeFailed,
                   probeFailedAt, backendUp, labelVars, rankVars, gapVars, hookVars, extVars>>

\* handleSend, lines 42-61: up to the await of checkBackendStatus, whose
\* model-status request is issued here
handleSend ==
    IF trim(input) = << >>
    THEN UNCHANGED <<messages, input, isTyping, chatError, sends>>
    ELSE /\ \E r \in 1..MaxSends :
               /\ sends[r] = "unused"
               /\ \A y \in 1..MaxSends : sends[y] = "unused" => r <= y
               /\ sends' = [sends EXCEPT ![r] = "probing"]
         /\ messages' = Append(messages, [role |-> "user", content |-> input,
                                          isError |-> FALSE])
         /\ input' = << >>
         /\ isTyping' = TRUE
         /\ chatError' = "null"

\* the send button (lines 208-218), disabled while the input is blank or
\* isTyping
clickSend ==
    /\ ~(trim(input) = << >> \/ isTyping)
    /\ handleSend
    /\ UNCHANGED <<now, probeFailed, probeFailedAt, backendUp, labelVars,
                   rankVars, gapVars, hookVars, extVars>>

\* handleKeyPress, lines 98-103: Enter without Shift calls handleSend
handleKeyPress ==
    /\ handleSend
    /\ UNCHANGED <<now, probeFailed, probeFailedAt, backendUp, labelVars,
                   rankVars, gapVars, hookVars, extVars>>

\* the model-status request of one handleSend settles: lines 61-73.  A probe
\* that is not ready throws inside the inner try, the inner catch throws again,
\* and the outer catch and finally (lines 84-95) append the apology.
statusChecked ==
    \E r \in 1..MaxSends :
       /\ sends[r] = "probing"
       /\ \E outcome \in ProbeOutcomes :
             /\ (outcome = "rejected") = (~backendUp)
             /\ LET isBackendReady == chatCheckBackendStatus(outcome)
                IN  IF isBackendReady.threw \/ ~isBackendReady.value
                    THEN /\ chatError' = "Could not connect to the backend service. Please ensure it is running."
                         /\ messages' = Append(messages, Apology)
                         /\ isTyping' = FALSE
                         /\ sends' = [sends EXCEPT ![r] = "done"]
                         /\ probeFailed' = TRUE
                         /\ probeFailedAt' = now
                    ELSE /\ sends' = [sends EXCEPT ![r] = "chatting"]
                         /\ probeFailed' = FALSE
                         /\ UNCHANGED <<chatError, messages, isTyping, probeFailedAt>>
       /\ UNCHANGED <<input, now, backendUp, labelVars, rankVars, gapVars, hookVars, extVars>>

\* the chat request answers 2xx: lines 75-83 and the finally
chatAnswered ==
    \E r \in 1..MaxSends :
       /\ sends[r] = "chatting"
       /\ backendUp
       /\ messages' = Append(messages, [role |-> "assistant", content |-> "response",
                                        isError |-> FALSE])
       /\ isTyping' = FALSE
       /\ sends' = [sends EXCEPT ![r] = "done"]
       /\ UNCHANGED <<input, chatError, now, probeFailed, probeFailedAt, backendUp,
                      labelVars, rankVars, gapVars, hookVars, extVars>>

\* chatRejected with a catch that records the error and appends no apology
chatRejected_noreply ==
    \E r \in 1..MaxSends :
       /\ sends[r] = "chatting"
       /\ \E msg \in {"The AI service is currently unavailable. Please try again later.",
                      "error.response.data.error",
                      "Failed to get a response from the AI assistant. Please try again."} :
             chatError' = msg
       /\ messages' = messages
       /\ isTyping' = FALSE
       /\ sends' = [sends EXCEPT ![r] = "done"]
       /\ UNCHANGED <<input, now, probeFailed, probeFailedAt, backendUp,
                      labelVars, rankVars, gapVars, hookVars, extVars>>

\* the chat request is rejected: getChatCompletion (chatbotApiService lines
\* 37-46) throws one of its three errors; lines 84-95 append the apology
chatRejected ==
    \E r \in 1..MaxSends :
       /\ sends[r] = "chatting"
       /\ \E msg \in {"The AI service is currently unavailable. Please try again later.",
                      "error.response.data.error",
                      "Failed to get a response from the AI assistant. Please try again."} :
             chatError' = msg
       /\ messages' = Append(messages, Apology)
       /\ isTyping' = FALSE
       /\ sends' = [sends EXCEPT ![r] = "done"]
       /\ UNCHANGED <<input, now, probeFailed, probeFailedAt, backendUp,
                      labelVars, rankVars, gapVars, hookVars, extVars>>

----------------------------------------------------------------------------
(* Specifications *)

Init == LabelInit /\ RankInit /\ GapInit /\ BackendInit /\ HookInit /\ ChatInit
        /\ VoiceInit /\ WizardInit /\ AsmInit

NextLabel == LabelRow \/ evaluate
SpecLabel == Init /\ [][NextLabel]_vars

NextRank == analyzeCandidates \/ rankCandidatesResolved
SpecRank == Init /\ [][NextRank]_vars

NextGap == \/ analyzeJobAndProfile
           \/ extractSkillsFulfilled
           \/ calculateMatchScoreFulfilled
           \/ analyzeRequestRejected
SpecGap == Init /\ [][NextGap]_vars

NextHook == \/ checkStatus
            \/ setJobDescription
            \/ setResume
            \/ handleAnalyze
            \/ extractSkillsAnswered
            \/ matchResumeAnswered
            \/ generateResumeAnswered
            \/ requestRejected
            \/ handleReset
            \/ BackendDown
            \/ BackendUp
SpecHook == Init /\ [][NextHook]_vars

\* The event loop runs a continuation once its request has settled, and every
\* request settles (axios resolves or rejects); the user keeps pressing
\* Analyze whenever the button is enabled.
FairSpecHook ==
    /\ SpecHook
    /\ WF_vars(checkStatus)
    /\ WF_vars(extractSkillsAnswered \/ matchResumeAnswered
                  \/ generateResumeAnswered \/ requestRejected)
    /\ WF_vars(handleAnalyze)

NextChat == \/ setInput
            \/ clickSend
            \/ handleKeyPress
            \/ statusChecked
            \/ chatAnswered
            \/ chatRejected
            \/ Tick
            \/ BackendDown
            \/ BackendUp
SpecChat == Init /\ [][NextChat]_vars

\* the hook over a backend that may stop answering
NextTimeout == NextHook \/ BackendHangs
SpecTimeout == Init /\ [][NextTimeout]_vars
\* every request the backend answers or refuses settles
FairSpecTimeout ==
    /\ SpecTimeout
    /\ WF_vars(checkStatus)
    /\ WF_vars(extractSkillsAnswered \/ matchResumeAnswered
                 \/ generateResumeAnswered \/ requestRejected)

NextVoice == \/ voiceCheckStatus
             \/ startVoiceSearch
             \/ handleStartNewSearch
             \/ handleVoiceSearchClose
             \/ handleVoiceQuery
             \/ voiceAnswered
             \/ voiceRejected
             \/ BackendDown
             \/ BackendUp
SpecVoice == Init /\ [][NextVoice]_vars

NextWizard == \/ wizSetJobDescription
              \/ handleNext
              \/ handleBack
              \/ generateFinalResumeResolved
              \/ Tick
SpecWizard == Init /\ [][NextWizard]_vars

NextAssemble == \/ generateFinalResume
                \/ asmProbed
                \/ asmAwaitFulfilled
                \/ asmAwaitRejected
                \/ Tick
                \/ BackendDown
                \/ BackendUp
SpecAssemble == Init /\ [][NextAssemble]_vars

\* one page is mounted at a time: the resume page with useResumeGenerator, or
\* the voice page with useVoiceJobSearch
NextPages == \/ (VoiceInit /\ NextHook)
             \/ (HookInit /\ NextVoice)
SpecPages == Init /\ [][NextPages]_vars

Next == NextLabel \/ NextRank \/ NextGap \/ NextHook \/ NextChat \/ NextVoice
        \/ NextWizard \/ NextAssemble \/ BackendHangs
Spec == Init /\ [][Next]_vars

----------------------------------------------------------------------------
(* Claims *)

C2_ScoreInUnitInterval ==
    /\ matchScore.t = "number"
    /\ 0 <= matchScore.v /\ matchScore.v <= 100

IdOf(c) == IF "id" \in DOMAIN c THEN c.id ELSE 0

\* C3: once rankCandidates has resolved, any two candidates of its argument
\* that have equal scores appear in the returned ranking with the smaller
\* candidateId first.
C3_TieBreakById ==
    (\E r \in 1..MaxRuns : rankRuns[r].pc = "done") =>
       \A i, j \in DOMAIN rankArg :
          (rankArg[i].score = rankArg[j].score /\ rankArg[i].id < rankArg[j].id) =>
             \E p, q \in DOMAIN rankingResults.rankings :
                /\ p < q
                /\ IdOf(rankingResults.rankings[p]) = rankArg[i].id
                /\ IdOf(rankingResults.rankings[q]) = rankArg[j].id

\* C4: the list rankCandidates returns, and the list CandidateRanking keeps in
\* rankings, are ordered by score descending.
C4_RankingDescending ==
    /\ \A p, q \in DOMAIN rankingResults.rankings :
          p < q => rankingResults.rankings[p].score >= rankingResults.rankings[q].score
    /\ \A p, q \in DOMAIN rankings :
          p < q => rankings[p].score >= rankings[q].score

\* the possessed skills of the profile, by normalized name
Possessed == {toLowerCase(sk) : sk \in {gapProfile.skills[i] : i \in DOMAIN gapProfile.skills}}
AllGapNames == {gapAnalysis.critical[i] : i \in DOMAIN gapAnalysis.critical}
               \cup {gapAnalysis.recommended[i] : i \in DOMAIN gapAnalysis.recommended}
               \cup {gapAnalysis.nice[i] : i \in DOMAIN gapAnalysis.nice}

\* C5: in a returned analysis a skill is a gap only if its normalized name is
\* absent from the possessed skills; so when every required skill is
\* possessed, critical, recommended and nice are all empty.
C5_NoGapWhenPossessed ==
    gapPc = "returned" =>
       /\ \A g \in AllGapNames : toLowerCase(g) \notin Possessed
       /\ (\A i \in DOMAIN gapSkills : toLowerCase(gapSkills[i].name) \in Possessed)
             => AllGapNames = {}

TierOf(relevance) ==
    IF relevance >= 80 THEN "critical"
    ELSE IF relevance >= 50 THEN "recommended" ELSE "nice"

\* the names of the required skills whose relevance falls in one tier's band,
\* in the required order
RECURSIVE NamesOfTier(_, _)
NamesOfTier(q, tier) ==
    IF q = << >> THEN << >>
    ELSE IF TierOf(Head(q).relevance) = tier
         THEN <<Head(q).name>> \o NamesOfTier(Tail(q), tier)
         ELSE NamesOfTier(Tail(q), tier)

\* a is b with some elements left out
RECURSIVE IsSubsequence(_, _)
IsSubsequence(a, b) ==
    IF a = << >> THEN TRUE
    ELSE IF b = << >> THEN FALSE
         ELSE IF Head(a) = Head(b) THEN IsSubsequence(Tail(a), Tail(b))
              ELSE IsSubsequence(a, Tail(b))

\* C6: in a returned analysis every gap of a tier is a required skill whose
\* relevance falls in that tier's band (>= 0.8 critical, 0.5 to 0.8
\* recommended, below 0.5 nice), whatever its position in the required list,
\* and the gaps of a tier are in the required list's order.
C6_TierByRelevance ==
    gapPc = "returned" =>
       /\ IsSubsequence(gapAnalysis.critical, NamesOfTier(gapSkills, "critical"))
       /\ IsSubsequence(gapAnalysis.recommended, NamesOfTier(gapSkills, "recommended"))
       /\ IsSubsequence(gapAnalysis.nice, NamesOfTier(gapSkills, "nice"))

\* C7: after a status probe has failed, no readiness check made within the
\* TTL issues another model-status request.
C7_NoProbeWithinTTL ==
    [][ \A r \in 1..MaxSends :
           (sends[r] # "probing" /\ sends'[r] = "probing")
              => ~(probeFailed /\ now - probeFailedAt < TTL) ]_vars

\* C8: the cached backend state starts as 'checking' (Unknown), and a recorded
\* 'disconnected' does not persist while the backend is reachable: it leads to
\* 'connected' unless the backend goes down again.
C8_DisconnectedRefreshes ==
    /\ backendStatus = "checking"
    /\ (backendStatus = "disconnected" /\ backendUp)
          ~> (backendStatus = "connected" \/ ~backendUp)

\* C9: at most one model-status request is in flight at any time.
C9_SingleProbeInFlight ==
    Cardinality({r \in 1..MaxSends : sends[r] = "probing"}) <= 1

\* C10: checkBackendStatus never throws: whatever way the model-status request
\* ended, checkStatus received a boolean from it, and when the request failed
\* that boolean is false and the recorded backendStatus is 'disconnected'.
C10_ProbeNeverThrows ==
    statusPc = "done" =>
       /\ ~isConnected.threw
       /\ probeOutcome = "rejected" =>
             (~isConnected.value /\ backendStatus = "disconnected")
       /\ probeOutcome # "rejected" =>
             (isConnected.value /\ backendStatus = "connected")

\* C10 witness: the mount probe failed and the hook recorded 'disconnected'.
C10_Witness ==
    /\ statusPc = "done"
    /\ probeOutcome = "rejected"
    /\ ~isConnected.threw
    /\ backendStatus = "disconnected"

\* C12: when the extract-skills request fails, skill extraction does not
\* raise: the skill set is empty and the analysis goes on to its next request
\* instead of being aborted.
C12_ExtractFailureDegrades ==
    [][ (analyzePc = "awaitExtract" /\ requestRejected)
          => (extractedSkills' = << >> /\ analyzePc' = "awaitMatch") ]_vars

\* the skill names a text mentions, and the names of a skills array, as sets
SkillVocabulary == {GO, sql}
SkillsIn(text) == {w \in SkillVocabulary : includes(toLowerCase(text), w)}
SkillNameSet(skills) == {toLowerCase(skills[i].name) : i \in DOMAIN skills}

\* |intersection| / |union| in hundredths, 0 when both sets are empty
Jaccard(R, J) ==
    IF R \cup J = {} THEN 0
    ELSE (100 * Cardinality(R \cap J)) \div Cardinality(R \cup J)

\* C13: when the match-resume request cannot reach the scorer, scoring does
\* not fail: the score is the Jaccard overlap of the resume's and the job's
\* skill sets.
C13_FallbackScoreWhenUnreachable ==
    [][ (analyzePc = "awaitMatch" /\ requestRejected)
          => /\ error' = error
             /\ matchScore' = Num(Jaccard(SkillsIn(resume),
                                          SkillNameSet(extractedSkills))) ]_vars

\* C14: the score produced when the scorer is unreachable never drops when a
\* skill is added to both sets: for every skill s shared by the resume and the
\* job, it is a number no lower than the overlap of the two sets without s.
C14_FallbackMonotonic ==
    [][ (analyzePc = "awaitMatch" /\ requestRejected)
          => \A s \in SkillsIn(resume) \cap SkillNameSet(extractedSkills) :
                /\ error' # ErrMatch
                /\ matchScore'.t = "number"
                /\ matchScore'.v >= Jaccard(SkillsIn(resume) \ {s},
                                            SkillNameSet(extractedSkills) \ {s}) ]_vars

C16_BlankInputRejected ==
    [][ /\ (analyzePc = "idle" /\ analyzePc' = "awaitExtract")
             => (trim(jobDescription) # << >> /\ trim(resume) # << >>)
        /\ (voicePc = "idle" /\ voicePc' = "awaitVoice")
             => trim(voiceQuery') # << >>
        /\ (wizPc = "idle" /\ wizPc' = "generating")
             => trim(wizJobDescription) # << >> ]_vars

\* what the two hooks show for a failed or unreachable backend, and what
\* they show for an answer that holds no skills or no jobs
FailureSignals == {ErrCannotConnect, ErrExtract, ErrMatch, ErrGenerate, ErrVoice}
EmptySignals == {ErrNoSkills, ErrNoJobs}

C18_PartialResultOnFailure ==
    (asmOutcome = "threw" /\ asmDone # {}) =>
        (asmResult.sections = asmDone /\ asmResult.failed # "none")

\* C19: two calls of generateFinalResume with the same argument that both
\* returned, the backend answering the same both times, returned equal
\* results.
C19_AssemblyIdempotent ==
    \A i, j \in DOMAIN asmLog :
        asmLog[i].input = asmLog[j].input => asmLog[i].result = asmLog[j].result

\* C20: an analysis that has started always finishes: whenever loading is
\* true it is false again later, also when the backend never answers.
C20_LoadingEnds == loading ~> ~loading

\* C21: handleAnalyze posts its first request only when backendStatus is
\* 'connected' at that moment: never while it is still 'checking' and never
\* while it is 'disconnected'.
C21_RequestsOnlyWhenConnected ==
    [][ (analyzePc = "idle" /\ analyzePc' = "awaitExtract")
          => backendStatus = "connected" ]_vars

\* C22: backendStatus changes only in the step in which the mount probe's
\* checkStatus finishes, in both hooks: handleAnalyze, handleReset,
\* handleVoiceQuery and resetSearch leave it as it is, also when a request
\* fails.
C22_StatusOwnedByProbe ==
    [][ /\ backendStatus' # backendStatus
             => (statusPc = "probing" /\ statusPc' = "done")
        /\ voiceBackendStatus' # voiceBackendStatus
             => (voiceStatusPc = "probing" /\ voiceStatusPc' = "done") ]_vars

\* a request of handleAnalyze has failed after the probe found the backend,
\* and backendStatus still says 'connected'
C22_Witness ==
    /\ statusPc = "done"
    /\ backendStatus = "connected"
    /\ analyzePc = "idle"
    /\ error = ErrMatch

\* C23: the skills the hook holds after an extraction are normalized and
\* deduplicated: every name is lower-cased, trimmed and not blank, and no two
\* skills have the same lower-cased name.
C23_SkillsNormalized ==
    /\ \A i \in DOMAIN extractedSkills :
          /\ extractedSkills[i].name = trim(toLowerCase(extractedSkills[i].name))
          /\ trim(extractedSkills[i].name) # << >>
    /\ \A i, j \in DOMAIN extractedSkills :
          i # j => toLowerCase(extractedSkills[i].name)
                     # toLowerCase(extractedSkills[j].name)

\* C24: a finished analyzeCandidates run has ranked the whole batch, without
\* an error, whether or not the success predictor answered: every candidate
\* handed to rankCandidates has an entry in rankings.
C24_RankingCompletes ==
    ((\E r \in 1..MaxRuns : rankRuns[r].pc = "done") /\ ~rankLoading) =>
        /\ rankError = "null"
        /\ \A i \in DOMAIN rankArg :
              \E p \in DOMAIN rankings : IdOf(rankings[p]) = rankArg[i].id

\* C25: within one handleAnalyze the requests go out in the order
\* extract-skills, match-resume, generate-resume, each only after the one
\* before it was answered: match-resume only after an extraction that gave at
\* least one skill, generate-resume only after match-resume was answered; an
\* extraction without skills and a failed request end the run.
C25_RequestsSequential ==
    [][ /\ (analyzePc' = "awaitExtract" /\ analyzePc # "awaitExtract")
             => analyzePc = "idle"
        /\ (analyzePc' = "awaitMatch" /\ analyzePc # "awaitMatch")
             => (analyzePc = "awaitExtract" /\ extractSkillsAnswered
                 /\ Len(extractedSkills') > 0)
        /\ (analyzePc' = "awaitGenerate" /\ analyzePc # "awaitGenerate")
             => (analyzePc = "awaitMatch" /\ matchResumeAnswered)
        /\ (extractSkillsAnswered /\ Len(extractedSkills') = 0)
             => analyzePc' = "idle"
        /\ requestRejected => analyzePc' = "idle" ]_vars

\* the third request is out: extraction and matching were answered
C25_Witness ==
    /\ analyzePc = "awaitGenerate"
    /\ Len(extractedSkills) > 0
    /\ loading

\* C26: loading is true exactly while a handleAnalyze invocation is between
\* its first request and its end, and neither handleAnalyze nor handleReset
\* runs while one is in flight.
C26_LoadingBracketsAnalyze ==
    [][ /\ (loading <=> analyzePc # "idle")
        /\ (loading' <=> analyzePc' # "idle")
        /\ (handleAnalyze \/ handleReset) => (analyzePc = "idle" /\ ~loading) ]_vars

\* an invocation has ended through its catch and loading is false again
C26_Witness ==
    /\ analyzePc = "idle"
    /\ ~loading
    /\ error = ErrGenerate

\* C27: when a handleAnalyze invocation ends with an error (an early return
\* for blank input, an extraction without skills, or a failed request),
\* generatedResume is null: no resume of an earlier run stays next to it.
C27_NoResumeNextToError ==
    [][ ((handleAnalyze \/ extractSkillsAnswered \/ requestRejected)
           /\ analyzePc' = "idle" /\ error' # "")
          => generatedResume' = "null" ]_vars

\* C28: at most one chat request is in flight at any time: no handleSend,
\* from the send button or from Enter, starts a run while isTyping is true.
C28_NoSendWhileTyping ==
    [][ /\ (\E r \in 1..MaxSends : sends[r] = "unused" /\ sends'[r] # "unused")
              => ~isTyping
        /\ Cardinality({r \in 1..MaxSends : sends'[r] \in {"probing", "chatting"}}) <= 1
      ]_vars

\* the user messages and the assistant messages of a log
UserMessages(log) == {i \in DOMAIN log : log[i].role = "user"}
AssistantReplies(log) == {i \in DOMAIN log : i > 1 /\ log[i].role = "assistant"}
Started(s) == {r \in DOMAIN s : s[r] # "unused"}
Finished(s) == {r \in DOMAIN s : s[r] = "done"}

\* C29: the message log is append-only; a handleSend with non-blank input
\* appends exactly one user message and, when it finishes, exactly one
\* assistant message (the reply, or the apology flagged isError when the
\* probe or the chat request failed) and isTyping is false; a handleSend
\* with blank input appends nothing and issues no request.
C29_LogAppendOnly ==
    [][ /\ Len(messages') >= Len(messages)
        /\ SubSeq(messages', 1, Len(messages)) = messages
        /\ Started(sends') # Started(sends)
              => /\ trim(input) # << >>
                 /\ messages' = Append(messages, [role |-> "user", content |-> input,
                                                  isError |-> FALSE])
        /\ Finished(sends') # Finished(sends)
              => /\ Len(messages') = Len(messages) + 1
                 /\ messages'[Len(messages')].role = "assistant"
                 /\ messages'[Len(messages')].isError <=> ~chatAnswered
                 /\ messages'[Len(messages')].isError => messages'[Len(messages')] = Apology
                 /\ ~isTyping'
        /\ ((clickSend \/ handleKeyPress) /\ trim(input) = << >>)
              => (messages' = messages /\ sends' = sends)
        /\ Cardinality(UserMessages(messages')) = Cardinality(Started(sends'))
        /\ Cardinality(AssistantReplies(messages')) = Cardinality(Finished(sends'))
      ]_vars

\* C29 witness: a send was answered with the apology after a failed chat
\* request, right after its user message, and isTyping is false.
C29_Witness ==
    /\ \E r \in 1..MaxSends : sends[r] = "done"
    /\ Len(messages) >= 3
    /\ messages[Len(messages)] = Apology
    /\ messages[Len(messages) - 1].role = "user"
    /\ ~probeFailed
    /\ ~isTyping

\* C30: right after a handleVoiceQuery that posted process-voice-query has
\* finished, loading is false and error is empty exactly when matchingJobs
\* is non-empty.
C30_ErrorIffNoJobs ==
    [][ (voicePc = "awaitVoice" /\ voicePc' = "idle")
          => /\ ~voiceLoading'
             /\ (voiceError' = "") <=> (Len(matchingJobs') > 0) ]_vars

====
